---- MODULE Spec2Model ----
(***************************************************************************)
(* A model of the bulb Signal engine (src/src/signal.js) and of the        *)
(* combinators built on it: merge, zip, delay, map, filter, fold, scan     *)
(* and dedupe (src/src/combinator).                                        *)
(*                                                                         *)
(* Signals are numbered: 0 is the signal the external observers subscribe  *)
(* to (a plain source signal in Spec and SpecBroadcast, the combinator's   *)
(* result in the other specifications); 1..NumUp are the upstream signals  *)
(* a combinator subscribes to from its mount function.                     *)
(***************************************************************************)
EXTENDS Integers, Sequences, FiniteSets, TLC

\* ---------------------------------------------------------------- bounds
\* External observers that may ever subscribe to signal 0 (one id each).
MaxSubs == 3
\* Values the source of signal 0 emits in Spec.
MaxEmit == 2

\* Upstream signals of a join (merge, zip): self plus NumUp - 1 others.
NumUp == 2
\* Values each upstream of a combinator emits before it completes.
MaxVals == 2
\* External observers that may ever subscribe to a combinator's result.
MaxDownSubs == 2
\* The delay `n` given to delay, in clock ticks.
DelayN == 2
\* The clock stops at this tick.
MaxTick == 3

\* The values a source may emit in Spec.
Values == {"x", "y"}

\* What a mount function may return, by its `typeof`; a function remembers the
\* mount run that made it. Undefined is JavaScript's undefined.
Undefined == [type |-> "undefined", mount |-> 0]

SubIds == 1..MaxSubs

\* The upstream signals, and every signal.
Ups == 1..NumUp
Signals == 0..NumUp

\* The runs of signal 0's mount function: each needs a new first subscriber.
Mounts == 1..MaxSubs

\* `ss.length`: merge and zip are given the other signals; self is not in ss.
SsLength == NumUp - 1

\* The k-th value upstream u emits, and an array slot never assigned.
Value(u, k) == [up |-> u, k |-> k]
Hole == [up |-> 0, k |-> 0]

\* zip's `as = null`.
Null == [null |-> TRUE, arr |-> <<>>]

VARIABLES
  subscriptions,  \* signal -> its registry `_subscriptions`, in insertion order
  unmount,        \* signal -> its `_unmount` field: Undefined or what mount returned
  closed,         \* the Subscriptions that have become inert
  nextSub,        \* the id the next external Subscription gets
  mountReturns,   \* what the mount function of signal 0 returns in Spec
  mountCalls,     \* signal -> how often its mount function has run
  unmountCalls,   \* signal -> how often its unmount function has run
  emitted,        \* the values the source of signal 0 has emitted, in order
  received,       \* observer -> the values its next callback was given, in order
  joined,         \* observer -> Len(emitted) when it subscribed
  left,           \* observer -> Len(emitted) when its subscription was removed
  lastOp,         \* the last subscribe or unsubscribe call
  count,          \* mount run -> `count` of that run of a join's mount function
  as,             \* mount run -> `as` of that run of zip's mount function
  sent,           \* upstream -> how many values its source has emitted
  completed,      \* upstream -> whether its source has completed
  down,           \* calls of signal 0's next and complete handlers; the last value
  seen,           \* observer -> how many calls its complete callback was given
  variant,        \* which delay is modelled: Signal#delay or combinator/delay
  now,            \* the clock, in ticks
  timers,         \* the pending setTimeout timers, in creation order
  id,             \* `id` of combinator/delay: the timer last stored, 0 if none
  nextTimer,      \* the id setTimeout returns next
  combinator,     \* which combinator of one upstream (or merge) signal 0 is
  acc,            \* `a` of fold, scan and stateMachine: the accumulator
  input,          \* the values the upstreams have emitted, in order
  calls,          \* the calls of signal 0's handlers, in order
  errors,         \* observer -> the values its error callback was given, in order
  observer,       \* observer -> its callbacks and what its handlers do
  pass            \* the last broadcast: its kind, its calls, whether it threw

joinVars == <<count, as, sent, completed, down, seen>>

delayVars == <<variant, now, timers, id, nextTimer>>

foldVars == <<combinator, acc, input, calls, errors>>

passVars == <<observer, pass>>

vars == <<subscriptions, unmount, closed, nextSub, mountReturns, mountCalls,
          unmountCalls, emitted, received, joined, left, lastOp, joinVars, delayVars,
          foldVars, passVars>>

\* ---------------------------------------------------------------- registry
\* `this._subscriptions.add(subscription)`: a Set keeps insertion order.
SubscriptionsAdd(reg, s) == Append(reg, s)

\* `this._subscriptions.delete(subscription)`.
SubscriptionsDelete(reg, s) == SelectSeq(reg, LAMBDA e : e # s)

SubscriptionsHas(reg, s) == \E k \in 1..Len(reg) : reg[k] = s

\* `if (this._subscriptions.size === 1)`, after the add.
AlwaysMount(reg) == TRUE
MountOnlyOnce(reg) == Len(reg) = 1 /\ mountCalls[0] = 0
IsFirstSubscription(reg) == Len(reg) = 1

\* `if (this._subscriptions.size === 0 && typeof this._unmount === 'function')`,
\* after the delete.
ShouldUnmount(reg, um) == Len(reg) = 0 /\ um.type = "function"

\* What the mount function of the source signal returns on its m-th run:
\* a fresh unmount function, or nothing.
SourceMount(m) ==
  IF mountReturns = "function" THEN [type |-> "function", mount |-> m]
  ELSE Undefined

\* The source of signal 0 holds the handlers mount gave it from the mount on;
\* a source that handed out an unmount function is released by it.
SourceLive ==
  /\ mountCalls[0] > 0
  /\ mountReturns = "function" => mountCalls[0] > unmountCalls[0]

\* ---------------------------------------------------------------- broadcast
\* nextHandler: `for (let s of this._subscriptions) s.observer.next(value)`.
\* The new `received`, every observer in the registry given x once, in
\* registry order.
NextToFirstOnly(reg, x, rcv) ==
  IF reg = <<>> THEN rcv
  ELSE [rcv EXCEPT ![Head(reg)] = Append(@, x)]

RECURSIVE nextHandler(_, _, _)
nextHandler(reg, x, rcv) ==
  IF reg = <<>> THEN rcv
  ELSE nextHandler(Tail(reg), x, [rcv EXCEPT ![Head(reg)] = Append(@, x)])

\* ---------------------------------------------------------------- observers
\* The observer `subscribe` stores (lines 38-42): which callbacks it has. An
\* observer object has those it was made with; a bare next function gives
\* `{ next: observer, error: args[0], complete: args[1] }`; anything else that
\* is not an object gives `{}`. `does` is what its callbacks do when called.
Observer(n, e, c, d) == [next |-> n, error |-> e, complete |-> c, does |-> d]

\* An observer with all three callbacks, none of which touches the signal.
FullObserver == Observer(TRUE, TRUE, TRUE, "nothing")

\* No broadcast yet.
NoPass ==
  [type |-> "none", start |-> <<>>, given |-> [i \in SubIds |-> 0], threw |-> FALSE]

\* No combinator of one upstream is modelled.
NoCombinator == combinator = "none" /\ acc = 0

\* ---------------------------------------------------------------- Spec
InitCommon ==
  /\ subscriptions = [s \in Signals |-> <<>>]
  /\ unmount = [s \in Signals |-> Undefined]
  /\ closed = {}
  /\ nextSub = 1
  /\ mountCalls = [s \in Signals |-> 0]
  /\ unmountCalls = [s \in Signals |-> 0]
  /\ emitted = <<>>
  /\ received = [i \in SubIds |-> <<>>]
  /\ joined = [i \in SubIds |-> 0]
  /\ left = [i \in SubIds |-> 0]
  /\ lastOp = [op |-> "init", id |-> 0, again |-> FALSE]
  /\ count = [m \in Mounts |-> 0]
  /\ as = [m \in Mounts |-> Null]
  /\ sent = [u \in Ups |-> 0]
  /\ completed = [u \in Ups |-> FALSE]
  /\ down = [nextCalls |-> 0, completeCalls |-> 0, last |-> <<>>]
  /\ seen = [i \in SubIds |-> [complete |-> 0]]
  /\ now = 0
  /\ timers = <<>>
  /\ id = 0
  /\ nextTimer = 1
  /\ input = <<>>
  /\ calls = <<>>
  /\ errors = [i \in SubIds |-> <<>>]
  /\ observer = [i \in SubIds |-> FullObserver]
  /\ pass = NoPass

Init ==
  /\ InitCommon
  /\ mountReturns \in {"function", "undefined"}
  /\ variant = "none"
  /\ NoCombinator

\* Signal.prototype.subscribe on the source signal.
Subscribe ==
  /\ nextSub <= MaxSubs
  /\ LET s == nextSub
         reg == SubscriptionsAdd(subscriptions[0], s)
     IN /\ subscriptions' = [subscriptions EXCEPT ![0] = reg]
        /\ IF IsFirstSubscription(reg)
           THEN /\ mountCalls' = [mountCalls EXCEPT ![0] = @ + 1]
                /\ unmount' = [unmount EXCEPT ![0] = SourceMount(mountCalls[0] + 1)]
           ELSE UNCHANGED <<mountCalls, unmount>>
        /\ nextSub' = s + 1
        /\ joined' = [joined EXCEPT ![s] = Len(emitted)]
        /\ lastOp' = [op |-> "subscribe", id |-> s, again |-> FALSE]
  /\ UNCHANGED <<closed, mountReturns, unmountCalls, emitted, received, left, joinVars,
                 delayVars, foldVars, passVars>>

\* The disposer `subscribe` hands to the Subscription (lines 63-71).
Disposer(s) ==
  LET reg == SubscriptionsDelete(subscriptions[0], s)
  IN /\ subscriptions' = [subscriptions EXCEPT ![0] = reg]
     /\ IF ShouldUnmount(reg, unmount[0])
        THEN unmountCalls' = [unmountCalls EXCEPT ![0] = @ + 1]
        ELSE UNCHANGED unmountCalls
     /\ left' = [left EXCEPT ![s] =
                   IF SubscriptionsHas(subscriptions[0], s) THEN Len(emitted) ELSE @]

\* Subscription.prototype.unsubscribe: runs the disposer, then marks the
\* Subscription inert; an inert Subscription does nothing.
NeverInert(s) == FALSE
IsInert(s) == s \in closed

UnsubscribeCall(s) ==
  /\ s < nextSub
  /\ IF IsInert(s)
     THEN UNCHANGED <<subscriptions, unmountCalls, left, closed>>
     ELSE /\ Disposer(s)
          /\ closed' = closed \cup {s}
  /\ lastOp' = [op |-> "unsubscribe", id |-> s, again |-> s \in closed]
  /\ UNCHANGED <<unmount, nextSub, mountReturns, mountCalls, emitted, received, joined>>

\* unsubscribe() on a Subscription to a signal whose unmount function, if it
\* has one, changes nothing that is modelled.
Unsubscribe(s) ==
  /\ UnsubscribeCall(s)
  /\ UNCHANGED <<joinVars, delayVars, foldVars, passVars>>

\* The source calls the next handler its mount function was given.
SourceNext(x) ==
  /\ SourceLive
  /\ Len(emitted) < MaxEmit
  /\ emitted' = Append(emitted, x)
  /\ received' = nextHandler(subscriptions[0], x, received)
  /\ UNCHANGED <<subscriptions, unmount, closed, nextSub, mountReturns, mountCalls,
                 unmountCalls, joined, left, lastOp, joinVars, delayVars, foldVars,
                 passVars>>

Next ==
  \/ Subscribe
  \/ \E s \in SubIds : Unsubscribe(s)
  \/ \E x \in Values : SourceNext(x)

Spec == Init /\ [][Next]_vars

\* ---------------------------------------------------------------- claims on Spec
Registered(i) == SubscriptionsHas(subscriptions[0], i)

\* C1: for a Signal whose mount returns an unmount function, every step runs
\* mount once exactly if the subscriber count goes from 0 to 1 and runs
\* unmount once exactly if the count drops from above 0 to 0; a mount that
\* returned no function is never followed by an unmount call.
C1_MountUnmountOnTransitions ==
  [][LET before == Len(subscriptions[0])
         after == Len(subscriptions'[0])
     IN /\ mountCalls'[0] =
             mountCalls[0] + (IF before = 0 /\ after = 1 THEN 1 ELSE 0)
        /\ mountReturns = "function" =>
             unmountCalls'[0] =
               unmountCalls[0] + (IF before > 0 /\ after = 0 THEN 1 ELSE 0)
        /\ mountReturns # "function" => unmountCalls'[0] = unmountCalls[0]]_vars

\* Three subscribes from the empty registry and three unsubscribes: one mount,
\* one unmount.
C1_Witness ==
  /\ mountReturns = "function"
  /\ nextSub = 4
  /\ closed = {1, 2, 3}
  /\ subscriptions[0] = <<>>
  /\ mountCalls[0] = 1
  /\ unmountCalls[0] = 1

\* C2: a subscribe that finds the registry empty after an earlier mount runs
\* mount again and stores what that run returned in `_unmount`.
C2_RemountAfterFullUnmount ==
  [][(lastOp'.op = "subscribe" /\ lastOp' # lastOp
        /\ subscriptions[0] = <<>> /\ mountCalls[0] > 0)
     => /\ mountCalls'[0] = mountCalls[0] + 1
        /\ unmount'[0].type = mountReturns
        /\ mountReturns = "function" => unmount'[0].mount = mountCalls'[0]]_vars

\* The third mount of the same Signal, its own hook stored.
C2_Witness ==
  /\ mountReturns = "function"
  /\ mountCalls[0] = 3
  /\ unmountCalls[0] = 2
  /\ unmount[0] = [type |-> "function", mount |-> 3]

\* C3: unsubscribe() on a Subscription that was unsubscribed before changes
\* neither the registry nor the number of unmount calls.
C3_SecondUnsubscribeIsNoOp ==
  [][(lastOp'.op = "unsubscribe" /\ lastOp' # lastOp /\ lastOp'.id \in closed)
     => /\ subscriptions' = subscriptions
        /\ unmountCalls' = unmountCalls
        /\ closed' = closed]_vars

\* A second unsubscribe of the Subscription whose first unsubscribe unmounted
\* the Signal, made after another observer joined.
C3_Witness ==
  /\ mountReturns = "function"
  /\ lastOp = [op |-> "unsubscribe", id |-> 1, again |-> TRUE]
  /\ subscriptions[0] = <<2>>
  /\ unmountCalls[0] = 1
  /\ mountCalls[0] = 2

\* C4: every observer has been given exactly the values emitted while it was
\* registered, each once and in emission order; so one next(x) with k
\* observers registered makes k deliveries of x.
C4_BroadcastFanOut ==
  \A i \in SubIds :
    i < nextSub =>
      received[i] =
        SubSeq(emitted, joined[i] + 1, IF Registered(i) THEN Len(emitted) ELSE left[i])

\* Three observers, two different values, each observer given both in order.
C4_Witness ==
  /\ Len(subscriptions[0]) = 3
  /\ emitted = <<"x", "y">>
  /\ \A i \in SubIds : received[i] = <<"x", "y">>

\* C19: `_unmount` holds a hook only while the registry is not empty.
C19_HookOnlyWhileSubscribed ==
  subscriptions[0] = <<>> => unmount[0] = Undefined

\* ---------------------------------------------------------------- joins
\* What the handlers run by one upstream event read and write.
JoinState == [count |-> count, as |-> as, down |-> down, seen |-> seen]

SetJoinState(st) ==
  /\ count' = st.count
  /\ as' = st.as
  /\ down' = st.down
  /\ seen' = st.seen

\* nextHandler of signal 0, called with the value (merge) or the array (zip)
\* `out`; it hands `out` to the registered observers as nextHandler does in
\* Spec, and only the call itself is recorded here.
DownNext(st, out) ==
  [st EXCEPT !.down = [@ EXCEPT !.nextCalls = @ + 1, !.last = out]]

\* completeHandler of signal 0.
DownComplete(st) ==
  [st EXCEPT !.down = [@ EXCEPT !.completeCalls = @ + 1],
             !.seen = [i \in SubIds |->
                         IF Registered(i) THEN [st.seen[i] EXCEPT !.complete = @ + 1]
                         ELSE st.seen[i]]]

\* `[this].concat(ss).map(s => s.subscribe(...))` in mount run m: one more
\* subscription in every upstream's registry; an upstream mounts on its first.
UpstreamsSubscribed(m) ==
  [sig \in Signals |->
     IF sig = 0 THEN SubscriptionsAdd(subscriptions[0], nextSub)
     ELSE SubscriptionsAdd(subscriptions[sig], m)]

UpstreamsMounted(regs) ==
  [sig \in Signals |->
     IF sig = 0 \/ IsFirstSubscription(regs[sig]) THEN mountCalls[sig] + 1
     ELSE mountCalls[sig]]

\* Signal.prototype.subscribe on the result of merge or zip. Its mount
\* function starts with `count = 0` (and `as = null`), subscribes to every
\* upstream and returns nothing.
JoinSubscribe ==
  /\ nextSub <= MaxDownSubs
  /\ LET s == nextSub
         reg == SubscriptionsAdd(subscriptions[0], s)
         m == mountCalls[0] + 1
     IN /\ IF IsFirstSubscription(reg)
           THEN /\ subscriptions' = UpstreamsSubscribed(m)
                /\ mountCalls' = UpstreamsMounted(UpstreamsSubscribed(m))
                /\ count' = [count EXCEPT ![m] = 0]
                /\ as' = [as EXCEPT ![m] = Null]
                /\ unmount' = [unmount EXCEPT ![0] = Undefined]
           ELSE /\ subscriptions' = [subscriptions EXCEPT ![0] = reg]
                /\ UNCHANGED <<mountCalls, count, as, unmount>>
        /\ nextSub' = s + 1
        /\ lastOp' = [op |-> "subscribe", id |-> s, again |-> FALSE]
  /\ UNCHANGED <<closed, mountReturns, unmountCalls, emitted, received, joined, left,
                 sent, completed, down, seen, delayVars, foldVars, passVars>>

\* An upstream's source may call its handlers once the upstream is mounted,
\* and calls none after it has completed.
UpstreamLive(u) == subscriptions[u] # <<>> /\ ~completed[u]

\* ---------------------------------------------------------------- merge
\* `if (++count > ss.length)`.
CountReaches(c) == c >= SsLength
CountExceeds(c) == c > SsLength

\* onComplete of merge's mount run m.
MergeOnComplete(st, m) ==
  LET c == st.count[m] + 1
      st1 == [st EXCEPT !.count[m] = c]
  IN IF CountExceeds(c) THEN DownComplete(st1) ELSE st1

\* An upstream's nextHandler: each subscription merge made on it forwards the
\* value to signal 0's next handler.
RECURSIVE MergeUpstreamNext(_, _, _)
MergeUpstreamNext(reg, v, st) ==
  IF reg = <<>> THEN st
  ELSE MergeUpstreamNext(Tail(reg), v, DownNext(st, <<v>>))

\* An upstream's completeHandler: each subscription merge made on it runs the
\* onComplete of the mount run that made it.
RECURSIVE MergeUpstreamComplete(_, _)
MergeUpstreamComplete(reg, st) ==
  IF reg = <<>> THEN st
  ELSE MergeUpstreamComplete(Tail(reg), MergeOnComplete(st, Head(reg)))

MergeNext(u) ==
  /\ UpstreamLive(u)
  /\ sent[u] < MaxVals
  /\ sent' = [sent EXCEPT ![u] = @ + 1]
  /\ SetJoinState(MergeUpstreamNext(subscriptions[u], Value(u, sent[u] + 1), JoinState))
  /\ UNCHANGED <<subscriptions, unmount, closed, nextSub, mountReturns, mountCalls,
                 unmountCalls, emitted, received, joined, left, lastOp, completed,
                 delayVars, foldVars, passVars>>

MergeComplete(u) ==
  /\ UpstreamLive(u)
  /\ completed' = [completed EXCEPT ![u] = TRUE]
  /\ SetJoinState(MergeUpstreamComplete(subscriptions[u], JoinState))
  /\ UNCHANGED <<subscriptions, unmount, closed, nextSub, mountReturns, mountCalls,
                 unmountCalls, emitted, received, joined, left, lastOp, sent,
                 delayVars, foldVars, passVars>>

InitJoin ==
  /\ InitCommon
  /\ mountReturns = "undefined"
  /\ variant = "none"
  /\ NoCombinator

NextMerge ==
  \/ JoinSubscribe
  \/ \E s \in SubIds : Unsubscribe(s)
  \/ \E u \in Ups : MergeNext(u)
  \/ \E u \in Ups : MergeComplete(u)

SpecMerge == InitJoin /\ [][NextMerge]_vars

AllCompleted == \A u \in Ups : completed[u]

\* C5: while merge's result has been mounted once, the downstream complete
\* handler is called, and every registered observer's complete callback with
\* it, exactly in the step in which the last upstream completes: not in any
\* step that leaves an upstream uncompleted, and not a second time.
C5_MergeCompletesOnceAfterAll ==
  [][mountCalls'[0] = 1 =>
       LET last == ~AllCompleted /\ \A u \in Ups : completed'[u]
       IN /\ down'.completeCalls = down.completeCalls + (IF last THEN 1 ELSE 0)
          /\ \A i \in SubIds :
               seen'[i].complete =
                 seen[i].complete + (IF last /\ Registered(i) THEN 1 ELSE 0)
          /\ down'.completeCalls = (IF \A u \in Ups : completed'[u] THEN 1 ELSE 0)]_vars

\* Every upstream has emitted all its values and completed, and the observer
\* that mounted the merge was told once.
C5_Witness ==
  /\ AllCompleted
  /\ \A u \in Ups : sent[u] = MaxVals
  /\ mountCalls[0] = 1
  /\ down.completeCalls = 1
  /\ down.nextCalls = NumUp * MaxVals
  /\ seen[1].complete = 1

\* ---------------------------------------------------------------- zip
\* `F.array(n)`: an array of n slots, none assigned.
FArray(n) == [j \in 1..n |-> Hole]

\* `as[index] = a` on a JavaScript array: index counts from 0, and assigning
\* past the end lengthens the array, the slots in between left unassigned.
ArraySet(arr, index, a) ==
  IF index < Len(arr) THEN [arr EXCEPT ![index + 1] = a]
  ELSE arr \o [j \in 1..(index - Len(arr)) |-> Hole] \o <<a>>

\* onNext of zip's mount run m (lines 339-348).
ZipOnNext(st, m, a, index) ==
  LET buf == IF st.as[m].null THEN FArray(SsLength) ELSE st.as[m].arr
      arr == ArraySet(buf, index, a)
  IN IF Len(arr) > SsLength
     THEN [DownNext(st, arr) EXCEPT !.as[m] = Null]
     ELSE [st EXCEPT !.as[m] = [null |-> FALSE, arr |-> arr]]

\* onComplete of zip's mount run m (lines 350-352).
ZipOnCompleteFlushing(st, m) ==
  LET c == st.count[m] + 1
      st1 == [st EXCEPT !.count[m] = c]
  IN IF c > SsLength
     THEN DownComplete(IF st1.as[m].null THEN st1 ELSE DownNext(st1, st1.as[m].arr))
     ELSE st1

ZipOnComplete(st, m) ==
  LET c == st.count[m] + 1
      st1 == [st EXCEPT !.count[m] = c]
  IN IF c > SsLength THEN DownComplete(st1) ELSE st1

\* An upstream's nextHandler: each subscription zip made on it runs the onNext
\* of the mount run that made it, with the upstream's index.
RECURSIVE ZipUpstreamNext(_, _, _, _)
ZipUpstreamNext(reg, index, v, st) ==
  IF reg = <<>> THEN st
  ELSE ZipUpstreamNext(Tail(reg), index, v, ZipOnNext(st, Head(reg), v, index))

RECURSIVE ZipUpstreamComplete(_, _)
ZipUpstreamComplete(reg, st) ==
  IF reg = <<>> THEN st
  ELSE ZipUpstreamComplete(Tail(reg), ZipOnComplete(st, Head(reg)))

\* Upstream u is `[this].concat(ss)[u - 1]`.
ZipNext(u) ==
  /\ UpstreamLive(u)
  /\ sent[u] < MaxVals
  /\ sent' = [sent EXCEPT ![u] = @ + 1]
  /\ SetJoinState(ZipUpstreamNext(subscriptions[u], u - 1, Value(u, sent[u] + 1),
                                  JoinState))
  /\ UNCHANGED <<subscriptions, unmount, closed, nextSub, mountReturns, mountCalls,
                 unmountCalls, emitted, received, joined, left, lastOp, completed,
                 delayVars, foldVars, passVars>>

ZipComplete(u) ==
  /\ UpstreamLive(u)
  /\ completed' = [completed EXCEPT ![u] = TRUE]
  /\ SetJoinState(ZipUpstreamComplete(subscriptions[u], JoinState))
  /\ UNCHANGED <<subscriptions, unmount, closed, nextSub, mountReturns, mountCalls,
                 unmountCalls, emitted, received, joined, left, lastOp, sent,
                 delayVars, foldVars, passVars>>

NextZip ==
  \/ JoinSubscribe
  \/ \E s \in SubIds : Unsubscribe(s)
  \/ \E u \in Ups : ZipNext(u)
  \/ \E u \in Ups : ZipComplete(u)

SpecZip == InitJoin /\ [][NextZip]_vars

\* C6: while zip's result has been mounted once, the array last handed to
\* the downstream next handler has no unassigned slot: a tuple is emitted
\* only when every upstream has supplied a value for the round.
C6_ZipEmitsOnlyFilledRounds ==
  (mountCalls[0] = 1 /\ down.nextCalls > 0) =>
    /\ Len(down.last) = NumUp
    /\ \A j \in 1..Len(down.last) : down.last[j] # Hole

\* C7: while zip's result has been mounted once, the k-th array handed to the
\* downstream next handler holds the k-th value of every upstream, in index
\* order.
C7_ZipPairsByRound ==
  (mountCalls[0] = 1 /\ down.nextCalls > 0) =>
    down.last = [j \in 1..NumUp |-> Value(j, down.nextCalls)]

\* C8: while zip's result has been mounted once, the downstream complete
\* handler is called, and every registered observer's complete callback with
\* it, exactly in the step in which the last upstream completes; a step in
\* which an upstream completes hands nothing to the downstream next handler,
\* and nothing is handed to it once every upstream has completed: a round
\* left partly filled is never emitted.
C8_ZipCompletesOnceDiscardingPartial ==
  [][mountCalls'[0] = 1 =>
       LET last == ~AllCompleted /\ \A u \in Ups : completed'[u]
       IN /\ down'.completeCalls = down.completeCalls + (IF last THEN 1 ELSE 0)
          /\ \A i \in SubIds :
               seen'[i].complete =
                 seen[i].complete + (IF last /\ Registered(i) THEN 1 ELSE 0)
          /\ down'.completeCalls = (IF \A u \in Ups : completed'[u] THEN 1 ELSE 0)
          /\ (completed' # completed \/ AllCompleted) =>
               (down'.nextCalls = down.nextCalls /\ down'.last = down.last)]_vars

\* Every upstream has completed while the first upstream's value waits in the
\* array for a round that was never filled; downstream was completed once.
C8_Witness ==
  /\ AllCompleted
  /\ mountCalls[0] = 1
  /\ ~as[1].null
  /\ as[1].arr[1] # Hole
  /\ down.completeCalls = 1
  /\ seen[1].complete = 1

\* ---------------------------------------------------------------- delay
\* Signal 0 is the delayed signal, signal 1 the signal S it delays. Two
\* delays are modelled: variant "method" is Signal.prototype.delay of
\* signal.js, variant "function" is delay(n, s) of combinator/delay.js.

\* What the timer calls of one upstream event read and write.
TimerState == [timers |-> timers, id |-> id, nextTimer |-> nextTimer]

SetTimerState(ts) ==
  /\ timers' = ts.timers
  /\ id' = ts.id
  /\ nextTimer' = ts.nextTimer

\* The mount run of signal 0 that is in progress: 0 when it has no subscriber.
Epoch == IF subscriptions[0] = <<>> THEN 0 ELSE mountCalls[0]

\* `setTimeout(f, n)` called at tick t runs f no earlier than at tick t + n.
NextDueNow(t) == t
NextDue(t) == t + DelayN

CompleteDue(t) == t + DelayN

\* setTimeout: a new pending timer; it remembers what it will deliver, the
\* tick and the mount run it was created in.
SetTimeout(ts, kind, k, due) ==
  [ts EXCEPT !.timers = Append(@, [tid |-> ts.nextTimer, due |-> due, kind |-> kind,
                                   k |-> k, at |-> now, epoch |-> Epoch]),
             !.nextTimer = @ + 1]

\* clearTimeout(id): the timer, if it is still pending, is dropped.
ClearTimeout(pending, tid) == SelectSeq(pending, LAMBDA t : t.tid # tid)

\* The `next` the mount function subscribes to S with:
\* `a => setTimeout(() => next(a), n)` in signal.js,
\* `a => { id = setTimeout(() => emit.next(a), n) }` in combinator/delay.js.
DelayOnNext(ts, k) ==
  LET ts1 == SetTimeout(ts, "next", k, NextDue(now))
  IN IF variant = "function" THEN [ts1 EXCEPT !.id = ts.nextTimer] ELSE ts1

\* The `complete` it subscribes with: `() => setTimeout(() => complete(), n)`;
\* neither file keeps the timer's id.
DelayOnComplete(ts) == SetTimeout(ts, "complete", 0, CompleteDue(now))

\* S's nextHandler and completeHandler over the subscriptions delay made on S.
RECURSIVE DelayUpstreamNext(_, _, _)
DelayUpstreamNext(reg, k, ts) ==
  IF reg = <<>> THEN ts
  ELSE DelayUpstreamNext(Tail(reg), k, DelayOnNext(ts, k))

RECURSIVE DelayUpstreamComplete(_, _)
DelayUpstreamComplete(reg, ts) ==
  IF reg = <<>> THEN ts
  ELSE DelayUpstreamComplete(Tail(reg), DelayOnComplete(ts))

\* Signal.prototype.subscribe on the delayed signal. Its mount function
\* subscribes to S; in signal.js it returns the Subscription (an object), in
\* combinator/delay.js the function `() => clearTimeout(id)`.
DelaySubscribe ==
  /\ nextSub <= MaxDownSubs
  /\ LET s == nextSub
         reg == SubscriptionsAdd(subscriptions[0], s)
         m == mountCalls[0] + 1
         regS == SubscriptionsAdd(subscriptions[1], m)
     IN /\ IF IsFirstSubscription(reg)
           THEN /\ subscriptions' = [subscriptions EXCEPT ![0] = reg, ![1] = regS]
                /\ mountCalls' =
                     [mountCalls EXCEPT ![0] = m,
                                        ![1] = IF IsFirstSubscription(regS) THEN @ + 1 ELSE @]
                /\ unmount' = [unmount EXCEPT ![0] = [type |-> mountReturns, mount |-> m]]
           ELSE /\ subscriptions' = [subscriptions EXCEPT ![0] = reg]
                /\ UNCHANGED <<mountCalls, unmount>>
        /\ nextSub' = s + 1
        /\ lastOp' = [op |-> "subscribe", id |-> s, again |-> FALSE]
  /\ UNCHANGED <<closed, mountReturns, unmountCalls, emitted, received, joined, left,
                 joinVars, delayVars, foldVars, passVars>>

\* unsubscribe() on a Subscription to the delayed signal: the unmount
\* function, when the disposer calls it, is `() => clearTimeout(id)`.
DelayUnsubscribe(s) ==
  /\ UnsubscribeCall(s)
  /\ timers' =
       IF ~IsInert(s)
            /\ ShouldUnmount(SubscriptionsDelete(subscriptions[0], s), unmount[0])
       THEN ClearTimeout(timers, id)
       ELSE timers
  /\ UNCHANGED <<joinVars, variant, now, id, nextTimer, foldVars, passVars>>

\* S emits its next value.
DelayNext ==
  /\ UpstreamLive(1)
  /\ sent[1] < MaxVals
  /\ sent' = [sent EXCEPT ![1] = @ + 1]
  /\ SetTimerState(DelayUpstreamNext(subscriptions[1], sent[1] + 1, TimerState))
  /\ UNCHANGED <<subscriptions, unmount, closed, nextSub, mountReturns, mountCalls,
                 unmountCalls, emitted, received, joined, left, lastOp,
                 count, as, completed, down, seen, variant, now,
                 foldVars, passVars>>

\* S completes.
DelayComplete ==
  /\ UpstreamLive(1)
  /\ completed' = [completed EXCEPT ![1] = TRUE]
  /\ SetTimerState(DelayUpstreamComplete(subscriptions[1], TimerState))
  /\ UNCHANGED <<subscriptions, unmount, closed, nextSub, mountReturns, mountCalls,
                 unmountCalls, emitted, received, joined, left, lastOp,
                 count, as, sent, down, seen, variant, now,
                 foldVars, passVars>>

\* The clock advances; a timer that is due may still be pending (timers run
\* late, never early).
Tick ==
  /\ now < MaxTick
  /\ now' = now + 1
  /\ UNCHANGED <<subscriptions, unmount, closed, nextSub, mountReturns, mountCalls,
                 unmountCalls, emitted, received, joined, left, lastOp, joinVars,
                 variant, timers, id, nextTimer,
                 foldVars, passVars>>

\* The timer the runtime runs next: the earliest due, the earliest created
\* among those.
FirstDue(t) ==
  \A k \in 1..Len(timers) :
    \/ timers[k].due > t.due
    \/ timers[k].due = t.due /\ timers[k].tid >= t.tid

\* A timer runs: `() => next(a)` or `() => complete()`, the handlers of the
\* delayed signal.
Fire ==
  \E j \in 1..Len(timers) :
    LET t == timers[j]
    IN /\ FirstDue(t)
       /\ t.due <= now
       /\ timers' = ClearTimeout(timers, t.tid)
       /\ IF t.kind = "next"
          THEN SetJoinState(DownNext(JoinState, <<Value(1, t.k)>>))
          ELSE SetJoinState(DownComplete(JoinState))
       /\ UNCHANGED <<subscriptions, unmount, closed, nextSub, mountReturns, mountCalls,
                      unmountCalls, emitted, received, joined, left, lastOp,
                      sent, completed, variant, now, id, nextTimer,
                      foldVars, passVars>>

InitDelay ==
  /\ InitCommon
  /\ variant \in {"method", "function"}
  /\ mountReturns = (IF variant = "method" THEN "object" ELSE "function")
  /\ NoCombinator

NextDelay ==
  \/ DelaySubscribe
  \/ \E s \in SubIds : DelayUnsubscribe(s)
  \/ DelayNext
  \/ DelayComplete
  \/ Tick
  \/ Fire

SpecDelay == InitDelay /\ [][NextDelay]_vars

\* Timer t runs in this step.
Fires(t) == down' # down /\ \A k \in 1..Len(timers') : timers'[k].tid # t.tid

\* C9: a timer created during a mount run of the delayed signal runs, and
\* calls the downstream next or complete handler, only while that mount run
\* lasts: once the last subscriber has unsubscribed, no timer created before
\* runs.
C9_UnmountCancelsPendingTimers ==
  [][\A j \in 1..Len(timers) :
       (Fires(timers[j]) /\ timers[j].epoch > 0) =>
         (subscriptions[0] # <<>> /\ mountCalls[0] = timers[j].epoch)]_vars

\* C10: a timer runs no earlier than DelayN ticks after the upstream event
\* it delivers, and when it runs no timer created before it is still
\* pending: values reach downstream in the order S emitted them, and the
\* complete not before a value emitted ahead of it.
C10_DelayedByAtLeastNInOrder ==
  [][\A j \in 1..Len(timers) :
       Fires(timers[j]) =>
         /\ now >= timers[j].at + DelayN
         /\ \A k \in 1..Len(timers') : timers'[k].tid > timers[j].tid
         /\ (timers[j].kind = "next" /\ down.nextCalls > 0) =>
              down.last[1].k <= timers[j].k
         /\ (timers[j].kind = "next" /\ down.nextCalls > 0 /\ mountCalls[0] = 1) =>
              down.last[1].k < timers[j].k]_vars

\* Both values of S and its complete have reached downstream, the last value
\* last, during the one mount run.
C10_Witness ==
  /\ mountCalls[0] = 1
  /\ subscriptions[0] # <<>>
  /\ sent[1] = MaxVals
  /\ completed[1]
  /\ timers = <<>>
  /\ down.nextCalls = MaxVals
  /\ down.last = <<Value(1, MaxVals)>>
  /\ down.completeCalls = 1
  /\ seen[1].complete = 1

\* ---------------------------------------------------------------- combinators
\* Values and errors the upstream of a combinator emits, and how many of each
\* over all upstreams.
Numbers == {1, 2, 3}
Errors == {1}
MaxInput == 3
MaxErrs == 1

\* The combinators modelled on one signal 0: the first five subscribe to one
\* upstream, merge to all.
Combinators == {"map", "filter", "fold", "scan", "dedupe", "merge"}

\* The arguments the combinators are given: `f` of map, `p` of filter, `f` and
\* `a` of fold and scan.
MapF(x) == x + 10
FilterP(x) == x > 1
FoldF(x, b) == x + b
Seed == 0

\* dedupeWith calls `s.stateMachine(...)` with the transform only: the
\* starting value is JavaScript's undefined, which equals no number.
UndefinedSeed == -1

\* fkit's `equal`, on numbers.
AlwaysDifferent(x, b) == FALSE
Equal(x, b) == x = b

\* `a` as the combinator call leaves it.
StartingValue(c) == IF c = "dedupe" THEN UndefinedSeed ELSE Seed

\* An upstream event and a call of one of signal 0's handlers.
Event(t, v) == [type |-> t, v |-> v]

\* errorHandler: `for (let s of this._subscriptions) s.observer.error(value)`.
RECURSIVE errorHandler(_, _, _)
errorHandler(reg, e, errs) ==
  IF reg = <<>> THEN errs
  ELSE errorHandler(Tail(reg), e, [errs EXCEPT ![Head(reg)] = Append(@, e)])

\* completeHandler: `for (let s of this._subscriptions) s.observer.complete()`.
RECURSIVE completeHandler(_, _)
completeHandler(reg, sn) ==
  IF reg = <<>> THEN sn
  ELSE completeHandler(Tail(reg), [sn EXCEPT ![Head(reg)].complete = @ + 1])

\* What the handlers run by one upstream event or one mount read and write.
CombinatorState ==
  [acc |-> acc, count |-> count, calls |-> calls, received |-> received,
   errors |-> errors, seen |-> seen]

SetCombinatorState(st) ==
  /\ acc' = st.acc
  /\ count' = st.count
  /\ calls' = st.calls
  /\ received' = st.received
  /\ errors' = st.errors
  /\ seen' = st.seen

\* The handlers of signal 0, `next`, `error` and `complete` in a mount
\* function, called while signal 0's registry is reg.
ResultNext(reg, st, v) ==
  [st EXCEPT !.calls = Append(@, Event("next", v)),
             !.received = nextHandler(reg, v, @)]

ErrorThenComplete(reg, st, e) ==
  [st EXCEPT !.calls = Append(Append(@, Event("error", e)), Event("complete", 0)),
             !.errors = errorHandler(reg, e, @),
             !.seen = completeHandler(reg, @)]

ResultError(reg, st, e) ==
  [st EXCEPT !.calls = Append(@, Event("error", e)),
             !.errors = errorHandler(reg, e, @)]

ResultComplete(reg, st) ==
  [st EXCEPT !.calls = Append(@, Event("complete", 0)),
             !.seen = completeHandler(reg, @)]

\* map: `F.compose(next, f)`.
MapNext(reg, st, b) == ResultNext(reg, st, MapF(b))

\* filter: `a => { if (p(a)) { next(a) } }`.
FilterNext(reg, st, b) == IF FilterP(b) THEN ResultNext(reg, st, b) ELSE st

\* fold: `b => { a = f(a, b) }`, and on complete `next(a)` then `complete()`.
FoldNextEmitting(reg, st, b) == ResultNext(reg, st, FoldF(st.acc, b))
FoldNext(reg, st, b) == [st EXCEPT !.acc = FoldF(@, b)]

FoldComplete(reg, st) == ResultComplete(reg, ResultNext(reg, st, st.acc))

\* scan: the mount function starts with `next(a)`; then
\* `b => { a = f(a, b); return next(a) }`.
ScanMountSilent(reg, st) == st
ScanMount(reg, st) == ResultNext(reg, st, st.acc)

ScanNext(reg, st, b) ==
  LET a1 == FoldF(st.acc, b)
  IN ResultNext(reg, [st EXCEPT !.acc = a1], a1)

\* dedupeWith's transform `(a, b, emit) => { if (!f(a, b)) { emit.next(b) }
\* return b }`, run by stateMachine's `b => { a = f(a, b, emit) }`.
DedupeWith(reg, st, b) ==
  IF ~Equal(st.acc, b) THEN ResultNext(reg, st, b) ELSE st

StateMachineNext(reg, st, b) == [DedupeWith(reg, st, b) EXCEPT !.acc = b]

\* merge's onComplete in mount run m, on this state.
MergeCount(st, m) == [st EXCEPT !.count[m] = @ + 1]

\* The observer a combinator's mount run m subscribes to its upstream with.
InnerNext(reg, st, b) ==
  CASE combinator = "map" -> MapNext(reg, st, b)
    [] combinator = "filter" -> FilterNext(reg, st, b)
    [] combinator = "fold" -> FoldNext(reg, st, b)
    [] combinator = "scan" -> ScanNext(reg, st, b)
    [] combinator = "dedupe" -> StateMachineNext(reg, st, b)
    [] OTHER -> ResultNext(reg, st, b)

InnerError(reg, st, e) == ResultError(reg, st, e)

InnerComplete(reg, st, m) ==
  CASE combinator = "fold" -> FoldComplete(reg, st)
    [] combinator = "merge" ->
         IF CountExceeds(st.count[m] + 1) THEN ResultComplete(reg, MergeCount(st, m))
         ELSE MergeCount(st, m)
    [] OTHER -> ResultComplete(reg, st)

\* An upstream's handlers: every subscription in its registry regU is one a
\* mount run of the combinator made, named by that run.
RECURSIVE UpstreamNext(_, _, _, _)
UpstreamNext(regU, reg, st, b) ==
  IF regU = <<>> THEN st
  ELSE UpstreamNext(Tail(regU), reg, InnerNext(reg, st, b), b)

RECURSIVE UpstreamError(_, _, _, _)
UpstreamError(regU, reg, st, e) ==
  IF regU = <<>> THEN st
  ELSE UpstreamError(Tail(regU), reg, InnerError(reg, st, e), e)

RECURSIVE UpstreamComplete(_, _, _)
UpstreamComplete(regU, reg, st) ==
  IF regU = <<>> THEN st
  ELSE UpstreamComplete(Tail(regU), reg, InnerComplete(reg, st, Head(regU)))

\* The signals a mount run subscribes to: `this`, and for merge
\* `[this].concat(ss)`.
UpstreamsOf(c) == IF c = "merge" THEN Ups ELSE {1}

\* What the mount function returns: the Subscription `this.subscribe(...)` gave
\* it (an object), or nothing in merge.
MountReturn(c, m) ==
  IF c = "merge" THEN Undefined ELSE [type |-> "object", mount |-> m]

\* Signal.prototype.subscribe on the combinator's result. The subscription
\* is in the registry when the mount function runs.
CombinatorSubscribe ==
  /\ nextSub <= MaxDownSubs
  /\ LET s == nextSub
         reg == SubscriptionsAdd(subscriptions[0], s)
         m == mountCalls[0] + 1
         regs == [sig \in Signals |->
                    IF sig = 0 THEN reg
                    ELSE IF sig \in UpstreamsOf(combinator)
                         THEN SubscriptionsAdd(subscriptions[sig], m)
                         ELSE subscriptions[sig]]
         st0 == [CombinatorState EXCEPT !.count[m] = 0]
     IN /\ IF IsFirstSubscription(reg)
           THEN /\ subscriptions' = regs
                /\ mountCalls' =
                     [sig \in Signals |->
                        IF sig = 0 \/ (regs[sig] # subscriptions[sig]
                                         /\ IsFirstSubscription(regs[sig]))
                        THEN mountCalls[sig] + 1
                        ELSE mountCalls[sig]]
                /\ unmount' = [unmount EXCEPT ![0] = MountReturn(combinator, m)]
                /\ SetCombinatorState(IF combinator = "scan" THEN ScanMount(reg, st0)
                                      ELSE st0)
           ELSE /\ subscriptions' = [subscriptions EXCEPT ![0] = reg]
                /\ UNCHANGED <<mountCalls, unmount, acc, count, calls, received, errors,
                               seen>>
        /\ nextSub' = s + 1
        /\ lastOp' = [op |-> "subscribe", id |-> s, again |-> FALSE]
  /\ UNCHANGED <<closed, mountReturns, unmountCalls, emitted, joined, left, as, sent,
                 completed, down, delayVars, combinator, input, passVars>>

\* unsubscribe() on a Subscription that is still registered.
UnsubscribeRegistered(s) ==
  /\ Registered(s)
  /\ Unsubscribe(s)

\* The values and the errors among the upstream events.
RECURSIVE Only(_, _)
Only(t, log) ==
  IF log = <<>> THEN <<>>
  ELSE IF Head(log).type = t THEN <<Head(log).v>> \o Only(t, Tail(log))
       ELSE Only(t, Tail(log))

\* Upstream u emits the value b.
CombinatorNext(u, b) ==
  /\ UpstreamLive(u)
  /\ Len(Only("next", input)) < MaxInput
  /\ input' = Append(input, Event("next", b))
  /\ SetCombinatorState(UpstreamNext(subscriptions[u], subscriptions[0], CombinatorState, b))
  /\ UNCHANGED <<subscriptions, unmount, closed, nextSub, mountReturns, mountCalls,
                 unmountCalls, emitted, joined, left, lastOp, as, sent, completed, down,
                 delayVars, combinator, passVars>>

\* Upstream u emits the error e.
CombinatorError(u, e) ==
  /\ UpstreamLive(u)
  /\ Len(Only("error", input)) < MaxErrs
  /\ input' = Append(input, Event("error", e))
  /\ SetCombinatorState(UpstreamError(subscriptions[u], subscriptions[0], CombinatorState, e))
  /\ UNCHANGED <<subscriptions, unmount, closed, nextSub, mountReturns, mountCalls,
                 unmountCalls, emitted, joined, left, lastOp, as, sent, completed, down,
                 delayVars, combinator, passVars>>

\* Upstream u completes.
CombinatorComplete(u) ==
  /\ UpstreamLive(u)
  /\ completed' = [completed EXCEPT ![u] = TRUE]
  /\ SetCombinatorState(UpstreamComplete(subscriptions[u], subscriptions[0], CombinatorState))
  /\ UNCHANGED <<subscriptions, unmount, closed, nextSub, mountReturns, mountCalls,
                 unmountCalls, emitted, joined, left, lastOp, as, sent, down,
                 delayVars, combinator, input, passVars>>

\* A combinator from cs is applied to the upstream; nobody has subscribed.
InitCombinators(cs) ==
  /\ InitCommon
  /\ combinator \in cs
  /\ acc = StartingValue(combinator)
  /\ mountReturns = (IF combinator = "merge" THEN "undefined" ELSE "object")
  /\ variant = "none"

\* fold, scan and dedupe over an upstream that emits values and completes.
InitFold == InitCombinators({"fold", "scan", "dedupe"})

NextFold ==
  \/ CombinatorSubscribe
  \/ \E s \in SubIds : UnsubscribeRegistered(s)
  \/ \E b \in Numbers : CombinatorNext(1, b)
  \/ CombinatorComplete(1)

SpecFold == InitFold /\ [][NextFold]_vars

\* The values upstream has emitted.
Inputs == Only("next", input)

\* The left fold of f over the values from the starting value a0, and the
\* folds of every prefix.
RECURSIVE FoldLeft(_, _)
FoldLeft(a0, values) ==
  IF values = <<>> THEN a0 ELSE FoldLeft(FoldF(a0, Head(values)), Tail(values))

Scans(a0, values) ==
  [k \in 1..(Len(values) + 1) |-> FoldLeft(a0, SubSeq(values, 1, k - 1))]

\* The values that differ from the value before them.
RECURSIVE Deduped(_)
Deduped(values) ==
  IF Len(values) <= 1 THEN values
  ELSE LET n == Len(values)
           front == Deduped(SubSeq(values, 1, n - 1))
       IN IF values[n] = values[n - 1] THEN front ELSE Append(front, values[n])

\* The next calls that hand on values, one each, and the complete call if
\* upstream has completed.
NextCalls(values) == [k \in 1..Len(values) |-> Event("next", values[k])]

CompleteCall == IF completed[1] THEN <<Event("complete", 0)>> ELSE <<>>

IsPrefix(p, q) == Len(p) <= Len(q) /\ p = SubSeq(q, 1, Len(p))

\* C11: during its first mount fold calls no handler of its result while the
\* upstream emits; when the upstream completes it calls next once, with the
\* left fold of f over the values from the seed, and then complete; an
\* observer is given that one value exactly if it is given the complete.
C11_FoldEmitsOnceOnComplete ==
  (combinator = "fold" /\ mountCalls[0] = 1) =>
    /\ calls = (IF completed[1] THEN NextCalls(<<FoldLeft(Seed, Inputs)>>) ELSE <<>>)
                 \o CompleteCall
    /\ \A i \in SubIds :
         /\ seen[i].complete <= 1
         /\ received[i] =
              IF seen[i].complete = 1 THEN <<FoldLeft(Seed, Inputs)>> ELSE <<>>

\* 1, 2, 3 folded with + from 0: the observer is given 6, then the complete.
C11_Witness ==
  /\ combinator = "fold"
  /\ mountCalls[0] = 1
  /\ Inputs = <<1, 2, 3>>
  /\ calls = <<Event("next", 6), Event("complete", 0)>>
  /\ received[1] = <<6>>
  /\ seen[1].complete = 1

\* C12: during its first mount scan calls next with the seed, then with the
\* fold of every prefix of the upstream values, in order; the observer whose
\* subscribe mounted it is given the seed first and every accumulation after
\* it while it stays registered.
C12_ScanEmitsSeedThenAccumulations ==
  (combinator = "scan" /\ mountCalls[0] = 1) =>
    /\ calls = NextCalls(Scans(Seed, Inputs)) \o CompleteCall
    /\ IsPrefix(received[1], Scans(Seed, Inputs))
    /\ received[1] # <<>>
    /\ Registered(1) => received[1] = Scans(Seed, Inputs)

\* 1, 2, 3 scanned with + from 0: the mounting observer is given 0, 1, 3, 6.
C12_Witness ==
  /\ combinator = "scan"
  /\ mountCalls[0] = 1
  /\ Inputs = <<1, 2, 3>>
  /\ received[1] = <<0, 1, 3, 6>>

\* C13: during its first mount dedupe calls next with the first upstream
\* value and with every later value that differs from the value right before
\* it, and with no other; the mounting observer is given exactly those while
\* it stays registered.
C13_DedupeSuppressesRepeats ==
  (combinator = "dedupe" /\ mountCalls[0] = 1) =>
    /\ calls = NextCalls(Deduped(Inputs)) \o CompleteCall
    /\ IsPrefix(received[1], Deduped(Inputs))
    /\ Registered(1) => received[1] = Deduped(Inputs)

\* 1, 1, 2: the observer is given 1, 2.
C13_Witness ==
  /\ combinator = "dedupe"
  /\ mountCalls[0] = 1
  /\ Inputs = <<1, 1, 2>>
  /\ received[1] = <<1, 2>>
  /\ Registered(1)

\* ---------------------------------------------------------------- remounts
InitCombinator == InitCombinators(Combinators)

NextCombinator ==
  \/ CombinatorSubscribe
  \/ \E s \in SubIds : UnsubscribeRegistered(s)
  \/ \E u \in Ups, b \in Numbers : CombinatorNext(u, b)
  \/ \E u \in Ups, e \in Errors : CombinatorError(u, e)
  \/ \E u \in Ups : CombinatorComplete(u)

SpecCombinator == InitCombinator /\ [][NextCombinator]_vars

\* C18: every mount run of fold, scan or dedupe starts from the starting
\* value the combinator was given: the accumulator holds it when the mount
\* function runs, and scan's first call in the run is next of it.
C18_AccumulatorStartsFromSeedOnRemount ==
  [][mountCalls'[0] > mountCalls[0] =>
       /\ acc' = StartingValue(combinator)
       /\ combinator = "scan" => calls' = Append(calls, Event("next", Seed))]_vars

\* C20: while the combinator's result has no subscriber its mount runs hold
\* no subscription on any upstream, and they never hold more than one on the
\* same upstream.
C20_UpstreamReleasedOnLastUnsubscribe ==
  /\ subscriptions[0] = <<>> => \A u \in Ups : subscriptions[u] = <<>>
  /\ \A u \in Ups : Len(subscriptions[u]) <= 1

\* ---------------------------------------------------------------- errors
\* map, filter and merge over upstreams that emit values and errors; the
\* observers stay subscribed.
InitError == InitCombinators({"map", "filter", "merge"})

NextError ==
  \/ CombinatorSubscribe
  \/ \E u \in Ups, b \in Numbers : CombinatorNext(u, b)
  \/ \E u \in Ups, e \in Errors : CombinatorError(u, e)
  \/ \E u \in Ups : CombinatorComplete(u)

SpecError == InitError /\ [][NextError]_vars

\* The upstream event of this step, if it is one.
Emits(type) == input' # input /\ input'[Len(input')].type = type

\* C15: an upstream error makes one call of the result's error handler with
\* the same value and gives it to every registered observer; it calls no
\* complete, changes no registry, no mount or unmount count, no completion
\* count of merge and no stored hook; and a value an upstream emits after an
\* error still reaches every registered observer.
C15_ErrorNeitherCompletesNorTearsDown ==
  [][/\ Emits("error") =>
          LET e == input'[Len(input')].v
          IN /\ calls' = Append(calls, Event("error", e))
             /\ \A i \in SubIds :
                  errors'[i] = IF Registered(i) THEN Append(errors[i], e) ELSE errors[i]
             /\ UNCHANGED <<subscriptions, unmount, mountCalls, unmountCalls, closed,
                            completed, count, acc, received, seen>>
     /\ (Emits("next") /\ Only("error", input) # <<>>) =>
          LET b == input'[Len(input')].v
              v == IF combinator = "map" THEN MapF(b) ELSE b
          IN (combinator = "filter" => FilterP(b)) =>
               \A i \in SubIds : Registered(i) => received'[i] = Append(received[i], v)]_vars

\* merge: an error after one upstream completed, then a value; the observer
\* holds both, has seen no complete, and one completion is counted.
C15_Witness ==
  /\ combinator = "merge"
  /\ Len(input) = 2
  /\ input[1].type = "error"
  /\ input[2].type = "next"
  /\ count[1] = 1
  /\ errors[1] = <<input[1].v>>
  /\ received[1] = <<input[2].v>>
  /\ seen[1].complete = 0
  /\ Registered(1)

\* ---------------------------------------------------------------- broadcasts
\* The observers that subscribe: one with every callback; a bare next
\* function, which leaves `error` and `complete` undefined; one whose
\* callbacks call unsubscribe() on its own Subscription; one whose callbacks
\* subscribe a new observer to the signal.
Observers ==
  {FullObserver,
   Observer(TRUE, FALSE, FALSE, "nothing"),
   Observer(TRUE, TRUE, TRUE, "unsubscribe"),
   Observer(TRUE, TRUE, TRUE, "subscribe")}

\* Whether `s.observer.next`, `.error` or `.complete` is a function.
HasCallback(o, type) ==
  CASE type = "next" -> o.next
    [] type = "error" -> o.error
    [] OTHER -> o.complete

\* What a broadcast reads and writes.
PassState ==
  [reg |-> subscriptions[0], um |-> unmount[0], closed |-> closed, nextSub |-> nextSub,
   mountCalls |-> mountCalls[0], unmountCalls |-> unmountCalls[0],
   observer |-> observer, given |-> NoPass.given, threw |-> FALSE]

\* A callback calls unsubscribe() on the Subscription s it belongs to: the
\* disposer, unless the Subscription is inert.
UnsubscribeIgnored(ps, s) == ps
HandlerUnsubscribes(ps, s) ==
  IF s \in ps.closed THEN ps
  ELSE LET reg == SubscriptionsDelete(ps.reg, s)
       IN [ps EXCEPT !.reg = reg,
                     !.closed = @ \cup {s},
                     !.unmountCalls = IF ShouldUnmount(reg, ps.um) THEN @ + 1 ELSE @]

\* A callback calls subscribe on the signal with a new observer that has
\* every callback.
HandlerSubscribes(ps) ==
  IF ps.nextSub > MaxSubs THEN ps
  ELSE LET s == ps.nextSub
           reg == SubscriptionsAdd(ps.reg, s)
           m == ps.mountCalls + 1
       IN [ps EXCEPT !.reg = reg,
                     !.nextSub = s + 1,
                     !.observer[s] = FullObserver,
                     !.mountCalls = IF IsFirstSubscription(reg) THEN m ELSE @,
                     !.um = IF IsFirstSubscription(reg) THEN SourceMount(m) ELSE @]

\* `s.observer.next(value)`, `.error(value)` or `.complete()` on Subscription
\* s: calling a callback the observer does not have throws a TypeError.
Invoke(ps, s, type) ==
  IF ~HasCallback(ps.observer[s], type) THEN [ps EXCEPT !.threw = TRUE]
  ELSE LET called == [ps EXCEPT !.given[s] = @ + 1]
       IN CASE ps.observer[s].does = "unsubscribe" -> HandlerUnsubscribes(called, s)
            [] ps.observer[s].does = "subscribe" -> HandlerSubscribes(called)
            [] OTHER -> called

\* The entries of the registry a `for (let s of this._subscriptions)` loop
\* has still to visit after it visited `last`: a Set's iterator walks the
\* entries in insertion order, comes to those added during the loop and
\* passes over those deleted before it reaches them. Subscriptions are
\* numbered in insertion order.
ToVisit(reg, last) == SelectSeq(reg, LAMBDA s : s > last)

\* nextHandler, errorHandler and completeHandler: the loop ends when a
\* callback throws.
RECURSIVE Broadcast(_, _, _)
Broadcast(type, ps, last) ==
  LET rest == ToVisit(ps.reg, last)
  IN IF rest = <<>> \/ ps.threw THEN ps
     ELSE Broadcast(type, Invoke(ps, Head(rest), type), Head(rest))

\* Signal.prototype.subscribe on the source signal with observer o.
SubscribeObserver(o) ==
  /\ nextSub <= MaxSubs
  /\ LET s == nextSub
         reg == SubscriptionsAdd(subscriptions[0], s)
     IN /\ subscriptions' = [subscriptions EXCEPT ![0] = reg]
        /\ IF IsFirstSubscription(reg)
           THEN /\ mountCalls' = [mountCalls EXCEPT ![0] = @ + 1]
                /\ unmount' = [unmount EXCEPT ![0] = SourceMount(mountCalls[0] + 1)]
           ELSE UNCHANGED <<mountCalls, unmount>>
        /\ nextSub' = s + 1
        /\ observer' = [observer EXCEPT ![s] = o]
        /\ lastOp' = [op |-> "subscribe", id |-> s, again |-> FALSE]
  /\ UNCHANGED <<closed, mountReturns, unmountCalls, emitted, received, joined, left,
                 joinVars, delayVars, foldVars, pass>>

\* The source calls the next, error or complete handler its mount function
\* was given.
SourceBroadcast(type) ==
  /\ SourceLive
  /\ LET ps == Broadcast(type, PassState, 0)
     IN /\ subscriptions' = [subscriptions EXCEPT ![0] = ps.reg]
        /\ unmount' = [unmount EXCEPT ![0] = ps.um]
        /\ closed' = ps.closed
        /\ nextSub' = ps.nextSub
        /\ mountCalls' = [mountCalls EXCEPT ![0] = ps.mountCalls]
        /\ unmountCalls' = [unmountCalls EXCEPT ![0] = ps.unmountCalls]
        /\ observer' = ps.observer
        /\ pass' = [type |-> type, start |-> subscriptions[0], given |-> ps.given,
                    threw |-> ps.threw]
  /\ UNCHANGED <<mountReturns, emitted, received, joined, left, lastOp, joinVars,
                 delayVars, foldVars>>

NextBroadcast ==
  \/ \E o \in Observers : SubscribeObserver(o)
  \/ \E s \in SubIds : UnsubscribeRegistered(s)
  \/ \E type \in {"next", "error", "complete"} : SourceBroadcast(type)

\* A source signal whose mount function returns an unmount function.
InitBroadcast ==
  /\ InitCommon
  /\ mountReturns = "function"
  /\ variant = "none"
  /\ NoCombinator

SpecBroadcast == InitBroadcast /\ [][NextBroadcast]_vars

\* The observers registered when the step starts all have the callback.
AllHaveCallback(type) ==
  \A i \in SubIds : Registered(i) => HasCallback(observer[i], type)

\* C14: a broadcast throws nothing, and every observer that was registered
\* when it started and has the callback is given the event once.
C14_MissingCallbacksSkipped ==
  pass.type # "none" =>
    /\ ~pass.threw
    /\ \A i \in SubIds :
         (SubscriptionsHas(pass.start, i) /\ HasCallback(observer[i], pass.type)) =>
           pass.given[i] = 1

\* C16: in a broadcast to observers that all have the callback, every
\* observer registered at the start is called exactly once, also one whose
\* callback unsubscribes it; that one is out of the registry afterwards, the
\* others stay; and the unmount function runs once in the pass exactly if the
\* pass emptied the registry of a signal that has one.
C16_SelfUnsubscribeDuringBroadcast ==
  [][(pass' # pass /\ AllHaveCallback(pass'.type)) =>
       /\ ~pass'.threw
       /\ \A i \in SubIds :
            Registered(i) =>
              /\ pass'.given[i] = 1
              /\ SubscriptionsHas(subscriptions'[0], i) = (observer[i].does # "unsubscribe")
              /\ observer[i].does = "unsubscribe" => i \in closed'
       /\ unmountCalls'[0] =
            unmountCalls[0]
              + (IF subscriptions'[0] = <<>> /\ mountReturns = "function" THEN 1 ELSE 0)]_vars

\* Three observers, the first and the last unsubscribing themselves in their
\* next callback: each called once, the second alone still registered.
C16_Witness ==
  /\ mountReturns = "function"
  /\ pass.type = "next"
  /\ pass.start = <<1, 2, 3>>
  /\ observer[1].does = "unsubscribe"
  /\ observer[2].does = "nothing"
  /\ observer[3].does = "unsubscribe"
  /\ pass.given = [i \in SubIds |-> 1]
  /\ subscriptions[0] = <<2>>
  /\ closed = {1, 3}

\* C17: a broadcast calls no observer that was not registered when it
\* started.
C17_LateJoinerNotNotified ==
  \A i \in SubIds : pass.given[i] > 0 => SubscriptionsHas(pass.start, i)

====
